---- MODULE Spec2Model ----
(***************************************************************************)
(* A model of the asynchronous processing pipeline of rec-mind's ML        *)
(* service: the QuerySearchConsumer with its circuit breaker               *)
(* (src/llm/app/query_search_consumer.py) and the                          *)
(* ArticleProcessingConsumer (src/llm/app/mq_consumer.py) with the         *)
(* services it drives (chunking.py, database.py, embeddings.py,            *)
(* vectordb.py).  External capabilities (broker, Embedder, Splitter,       *)
(* ChunkStore, VectorStore) answer nondeterministically.                   *)
(***************************************************************************)
EXTENDS Integers, Sequences, FiniteSets, TLC

\* ------------------------------------------------------------------ bounds
\* Query messages delivered to the consumer in one behaviour.
MaxMsgs == 11
\* The clock stops advancing here.
MaxTime == 120
\* Seconds by which one Tick advances the clock.
TickStep == 30
\* Longest list of matches the vector search returns.
MaxMatches == 1

\* ------------------------------------------------- QuerySearchConsumer state
\* self.max_failures and self.circuit_timeout, set in __init__.
max_failures == 5
circuit_timeout == 60
\* settings.max_retries
max_retries == 3
\* channel.set_qos(prefetch_count=1)
prefetch_count == 1

\* The messages a consumer holds unsettled: the one its handler is working on.
Unacked(pc) == IF pc = "idle" THEN 0 ELSE 1

\* A variant for a channel on which set_qos was not called.
BrokerDelivers_unlimited(unacked) == TRUE

\* The broker delivers a message to a consumer that holds fewer than
\* prefetch_count unsettled ones.
BrokerDelivers(unacked) == unacked < prefetch_count
\* circuit_open_time = None
NoTime == -1

VARIABLES
    now,                \* time.time()
    failure_count,      \* self.failure_count
    circuit_open_time,  \* self.circuit_open_time (NoTime for None)
    q_pc,               \* where process_query_search stands
    search_message,     \* the delivered message: [search_id, valid]
    search_results,     \* the list built from the VectorStore matches
    channel,            \* messages published to "query_search_results"
    delivered,          \* query messages delivered so far
    q_obs,              \* what happened to the message delivered last
    consec              \* failed messages in a row since the last success or reset

qvars == <<now, failure_count, circuit_open_time, q_pc, search_message,
           search_results, channel, delivered, q_obs, consec>>

\* -------------------------------------------- ArticleProcessingConsumer state
VARIABLES
    batch_size,         \* settings.batch_size, read by EmbeddingsService.__init__
    pool_ok,            \* DatabaseService.pool is set (initialize() succeeded)
    a_pc,               \* where process_article_message stands
    processing_request, \* the delivered message: [article_id, title, content, valid]
    chunks,             \* the ChunkResponse list of split_article
    chunk_ids,          \* the ids of store_chunks, or the generated ones
    embedding_results,            \* the EmbeddingResponse list built so far
    embed_pos,          \* items of the batch request already embedded
    upload_attempt,     \* attempts made of the current upload_embedding call
    upload_count,       \* upload_count: triples of the upload loop completed
    pool_held,          \* connections of DatabaseService.pool acquired and not released
    article_chunks,     \* the rows of table article_chunks
    pinecone_index,              \* the vectors of the Pinecone index, by key
    next_id,            \* UUIDs generated so far (each new one is fresh)
    a_delivered,        \* article messages delivered so far
    a_obs               \* what happened to the article message delivered last

avars == <<batch_size, pool_ok, a_pc, processing_request, chunks, chunk_ids, embedding_results,
           embed_pos, upload_attempt, upload_count, pool_held, article_chunks, pinecone_index,
           next_id, a_delivered, a_obs>>

\* ------------------------------- several QuerySearchConsumer processes side by side
VARIABLES
    breakers,           \* per instance: its failure_count and circuit_open_time
    f_handled,          \* query messages handled by the instances so far
    f_failed,           \* of these, the ones that were counted as a failure
    f_last              \* the instance that handled the last one

fvars == <<breakers, f_handled, f_failed, f_last>>

\* ------------------------- ArticleProcessingConsumer: start, stop, disconnect
VARIABLES
    c_pc,               \* where start_consuming stands
    is_running,         \* self.is_running
    connection,         \* self.connection: "none" for None, "open", "closed"
    c_obs               \* calls counted: starts, sleeps, disconnect calls from outside

cvars == <<c_pc, is_running, connection, c_obs>>

vars == <<qvars, avars, fvars, cvars>>

NoMsg == [search_id |-> 0, valid |-> FALSE]

\* No health_check has answered since the last message arrived.
NoHealth == [status |-> "none", connected |-> FALSE, seq |-> 0]

NoObs == [search_id |-> 0, gate |-> "none", t_entry |-> 0, open_entry |-> NoTime,
          fc_before |-> 0, calls |-> {}, pubs |-> <<>>, sent |-> 0,
          outcome |-> "none", raised |-> FALSE, settle |-> {}, embed_faults |-> 0,
          health |-> NoHealth, body_valid |-> TRUE, opens |-> 0]

MatchIds == {"m1"}

\* The lists of matches a vector search can return.
RECURSIVE SeqsUpTo(_, _)
SeqsUpTo(S, n) ==
    IF n = 0 THEN {<<>>}
    ELSE LET shorter == SeqsUpTo(S, n - 1)
         IN  shorter \cup {Append(s, x) : s \in {t \in shorter : Len(t) = n - 1}, x \in S}

\* ------------------------------------------------------ the circuit breaker

\* A variant of is_circuit_open that never answers True.
is_circuit_open_never(t, cot, fc) ==
    [ret |-> FALSE, circuit_open_time |-> cot, failure_count |-> fc]

\* A variant of is_circuit_open without the reset after the timeout.
is_circuit_open_no_reset(t, cot, fc) ==
    [ret |-> cot # NoTime, circuit_open_time |-> cot, failure_count |-> fc]

\* A variant of is_circuit_open whose reset clears circuit_open_time only.
is_circuit_open_keep_count(t, cot, fc) ==
    IF cot = NoTime
    THEN [ret |-> FALSE, circuit_open_time |-> cot, failure_count |-> fc]
    ELSE IF t - cot > circuit_timeout
         THEN [ret |-> FALSE, circuit_open_time |-> NoTime, failure_count |-> fc]
         ELSE [ret |-> TRUE, circuit_open_time |-> cot, failure_count |-> fc]

\* A variant of is_circuit_open whose reset leaves the count one short of the
\* threshold.
is_circuit_open_half_open(t, cot, fc) ==
    IF cot = NoTime
    THEN [ret |-> FALSE, circuit_open_time |-> cot, failure_count |-> fc]
    ELSE IF t - cot > circuit_timeout
         THEN [ret |-> FALSE, circuit_open_time |-> NoTime,
               failure_count |-> max_failures - 1]
         ELSE [ret |-> TRUE, circuit_open_time |-> cot, failure_count |-> fc]

\* A variant of is_circuit_open that resets as soon as the timeout is reached
\* (>= for >).
is_circuit_open_eager(t, cot, fc) ==
    IF cot = NoTime
    THEN [ret |-> FALSE, circuit_open_time |-> cot, failure_count |-> fc]
    ELSE IF t - cot >= circuit_timeout
         THEN [ret |-> FALSE, circuit_open_time |-> NoTime, failure_count |-> 0]
         ELSE [ret |-> TRUE, circuit_open_time |-> cot, failure_count |-> fc]

\* is_circuit_open: the answer and the breaker state it leaves.
is_circuit_open(t, cot, fc) ==
    IF cot = NoTime
    THEN [ret |-> FALSE, circuit_open_time |-> cot, failure_count |-> fc]
    ELSE IF t - cot > circuit_timeout
         THEN [ret |-> FALSE, circuit_open_time |-> NoTime, failure_count |-> 0]
         ELSE [ret |-> TRUE, circuit_open_time |-> cot, failure_count |-> fc]

\* A variant of record_success that leaves the count.
record_success_keep(fc) == fc

\* record_success
record_success(fc) == IF fc > 0 THEN 0 ELSE fc

\* A variant of record_failure that opens one failure late (> for >=).
record_failure_late(t, cot, fc) ==
    [failure_count |-> fc + 1,
     circuit_open_time |-> IF fc + 1 > max_failures /\ cot = NoTime THEN t ELSE cot]

\* A variant of record_failure that compares the count before the increment.
record_failure_early(t, cot, fc) ==
    [failure_count |-> fc + 1,
     circuit_open_time |-> IF fc + 2 >= max_failures /\ cot = NoTime THEN t ELSE cot]

\* record_failure: the breaker state it leaves.
record_failure(t, cot, fc) ==
    [failure_count |-> fc + 1,
     circuit_open_time |-> IF fc + 1 >= max_failures /\ cot = NoTime THEN t ELSE cot]

\* A variant of the exit that acknowledges whatever happened.
ProcessExit_ack(raised) == "ack"

\* `async with message.process()`: the broker outcome of leaving the block.
ProcessExit(raised) == IF raised THEN "reject" ELSE "ack"

\* A variant of the except branch that ends with `raise`.
QueryExceptReraises_raise == TRUE

\* The except branch of process_query_search ends without a raise.
QueryExceptReraises == FALSE

\* A variant that never publishes the error.
PublishesError_never(msg) == FALSE

\* A variant without the `if search_message:` guard.
PublishesError_always(msg) == TRUE

\* `if search_message:` in the except branch.
PublishesError(msg) == msg.valid

\* The except branch: record_failure on the breaker state (cot, fc), then the
\* error publish if the message parsed.
QFail(msg, cot, fc, obs, at) ==
    LET rf == record_failure(now, cot, fc)
    IN  /\ failure_count' = rf.failure_count
        /\ circuit_open_time' = rf.circuit_open_time
        /\ q_pc' = IF PublishesError(msg) THEN "publish_error" ELSE "exit"
        /\ q_obs' = [obs EXCEPT !.outcome = at, !.raised = QueryExceptReraises,
                                !.opens = IF rf.circuit_open_time # cot THEN @ + 1 ELSE @]

\* A variant of the handler that parses the body above the try block, so that a
\* body it cannot parse raises out of the handler.
ParseInsideTry_outside == FALSE

\* json.loads and QuerySearchMessage(**message_data) stand inside the try block
\* whose except branch calls record_failure.
ParseInsideTry == TRUE

\* A variant of the handler that parses the body before it asks the breaker.
GateBeforeParse_after == FALSE

\* `if self.is_circuit_open(): return` stands before json.loads in the try block.
GateBeforeParse == TRUE

\* A message is delivered: the breaker check, then the parse
\* (json.loads and QuerySearchMessage(**message_data)).
QReceive(valid) ==
    /\ q_pc = "idle"
    /\ BrokerDelivers(Unacked(q_pc))
    /\ channel = <<>>
    /\ delivered < MaxMsgs
    /\ LET r   == is_circuit_open(now, circuit_open_time, failure_count)
           id  == delivered + 1
           msg == [search_id |-> id, valid |-> valid]
           obs == [NoObs EXCEPT !.search_id = id,
                                !.gate = IF r.ret THEN "open" ELSE "closed",
                                !.t_entry = now,
                                !.open_entry = circuit_open_time,
                                !.fc_before = failure_count,
                                !.body_valid = valid,
                                !.opens = q_obs.opens]
           reset == circuit_open_time # NoTime /\ r.circuit_open_time = NoTime
       IN  /\ delivered' = id
           /\ search_results' = <<>>
           /\ IF r.ret /\ (GateBeforeParse \/ valid)
              THEN \* return: the message is dropped
                   /\ search_message' = NoMsg
                   /\ failure_count' = r.failure_count
                   /\ circuit_open_time' = r.circuit_open_time
                   /\ q_pc' = "exit"
                   /\ q_obs' = [obs EXCEPT !.outcome = "dropped"]
                   /\ consec' = consec
              ELSE IF ~valid
              THEN \* the parse raises with search_message still None
                   /\ search_message' = NoMsg
                   /\ IF ParseInsideTry
                      THEN QFail(NoMsg, r.circuit_open_time, r.failure_count, obs,
                                 "failed_parse")
                      ELSE /\ failure_count' = r.failure_count
                           /\ circuit_open_time' = r.circuit_open_time
                           /\ q_pc' = "exit"
                           /\ q_obs' = [obs EXCEPT !.outcome = "failed_parse",
                                                   !.raised = TRUE]
                   /\ consec' = (IF reset THEN 0 ELSE consec) + 1
              ELSE /\ search_message' = msg
                   /\ failure_count' = r.failure_count
                   /\ circuit_open_time' = r.circuit_open_time
                   /\ q_pc' = "embed"
                   /\ q_obs' = obs
                   /\ consec' = IF reset THEN 0 ELSE consec
    /\ UNCHANGED <<cvars, fvars, avars, now, channel>>

\* How the Embedder answers the calls made for one message: it raises a transient
\* error on the first so many calls and answers the next.
EmbedderFaults == {0, 1, max_retries}

\* generate_embedding: one call of embed_query, whose error is logged and
\* re-raised; the method carries no retry decorator.
generate_embedding(faults) == [raised |-> faults > 0, calls |-> 1]

\* embeddings_svc.generate_embedding(embedding_request) returns or raises.
QEmbed(faults) ==
    /\ q_pc = "embed"
    /\ LET obs == [q_obs EXCEPT !.calls = @ \cup {"embed"}, !.embed_faults = faults]
       IN  IF ~generate_embedding(faults).raised
           THEN /\ q_pc' = "search"
                /\ q_obs' = obs
                /\ UNCHANGED <<failure_count, circuit_open_time, consec>>
           ELSE /\ QFail(search_message, circuit_open_time, failure_count, obs, "failed_embed")
                /\ consec' = consec + 1
    /\ UNCHANGED <<cvars, fvars, avars, now, search_message, search_results, channel, delivered>>

\* The answers of vectordb_svc.search_similar_vectors: it raises, or it returns
\* the ranked matches above score_threshold.
search_similar_vectors == [ok : BOOLEAN, matches : SeqsUpTo(MatchIds, MaxMatches)]

\* One match of the VectorStore becomes one QuerySearchResult.
ToQueryResult(match) == [chunk_id |-> match]

\* vectordb_svc.search_similar_vectors(...) returns matches or raises; the matches
\* are converted in order.
QSearch(ok, matches) ==
    /\ q_pc = "search"
    /\ LET obs == [q_obs EXCEPT !.calls = @ \cup {"search"}]
       IN  IF ok
           THEN /\ search_results' = [i \in 1..Len(matches) |-> ToQueryResult(matches[i])]
                /\ q_pc' = "publish"
                /\ q_obs' = obs
                /\ UNCHANGED <<failure_count, circuit_open_time, consec>>
           ELSE /\ QFail(search_message, circuit_open_time, failure_count, obs, "failed_search")
                /\ consec' = consec + 1
                /\ UNCHANGED search_results
    /\ UNCHANGED <<cvars, fvars, avars, now, search_message, channel, delivered>>

\* A variant that counts the keys of the answer of the VectorStore, not the
\* results built from it.
SearchResponse_raw_count(msg, results) ==
    [kind |-> "response", search_id |-> msg.search_id, results |-> results,
     total_found |-> 1]

\* The QuerySearchResponse built from the results.
SearchResponse(msg, results) ==
    [kind |-> "response", search_id |-> msg.search_id, results |-> results,
     total_found |-> Len(results)]

\* The QuerySearchError of publish_search_error.
SearchError(msg) ==
    [kind |-> "error", search_id |-> msg.search_id, error_code |-> "PROCESSING_ERROR"]

\* A variant of the publish methods whose except branch raises again.
PublishFailureSwallowed_raises == FALSE

\* The except branches of publish_search_results and publish_search_error log the
\* failure of the broker publish and return.
PublishFailureSwallowed == TRUE

\* publish_search_results (a failed broker publish is logged), then record_success.
QPublishResults(broker_ok) ==
    /\ q_pc = "publish"
    /\ LET obs == [q_obs EXCEPT !.pubs = Append(@, "response"),
                                !.sent = IF broker_ok THEN @ + 1 ELSE @]
       IN  IF broker_ok \/ PublishFailureSwallowed
           THEN /\ channel' = IF broker_ok
                              THEN Append(channel,
                                          SearchResponse(search_message, search_results))
                              ELSE channel
                /\ failure_count' = record_success(failure_count)
                /\ consec' = 0
                /\ q_obs' = [obs EXCEPT !.outcome = "success"]
                /\ q_pc' = "exit"
                /\ UNCHANGED circuit_open_time
           ELSE /\ QFail(search_message, circuit_open_time, failure_count, obs,
                         "failed_publish")
                /\ consec' = consec + 1
                /\ UNCHANGED channel
    /\ UNCHANGED <<cvars, fvars, avars, now, search_message, search_results, delivered>>

\* publish_search_error (a failed broker publish is logged).
QPublishError(broker_ok) ==
    /\ q_pc = "publish_error"
    /\ channel' = IF broker_ok THEN Append(channel, SearchError(search_message))
                  ELSE channel
    /\ q_obs' = [q_obs EXCEPT !.pubs = Append(@, "error"),
                              !.sent = IF broker_ok THEN @ + 1 ELSE @,
                              !.raised = IF broker_ok \/ PublishFailureSwallowed
                                         THEN @ ELSE TRUE]
    /\ q_pc' = "exit"
    /\ UNCHANGED <<cvars, fvars, avars, now, failure_count, circuit_open_time, search_message,
                   search_results, delivered, consec>>

\* Leaving `async with message.process()`: the message is settled.
QExit ==
    /\ q_pc = "exit"
    /\ q_obs' = [q_obs EXCEPT !.settle = @ \cup {ProcessExit(q_obs.raised)}]
    /\ q_pc' = "idle"
    /\ UNCHANGED <<cvars, fvars, avars, now, failure_count, circuit_open_time, search_message,
                   search_results, channel, delivered, consec>>

\* A variant of health_check that asks the breaker before the connection.
HealthStatus_breaker_first(connected, open) ==
    IF open THEN "degraded" ELSE IF ~connected THEN "unhealthy" ELSE "healthy"

\* The status health_check returns.
HealthStatus(connected, open) ==
    IF ~connected THEN "unhealthy" ELSE IF open THEN "degraded" ELSE "healthy"

\* health_check: without an open connection it returns at once; with one it calls
\* is_circuit_open, which may reset the breaker.
QHealthCheck(connected) ==
    /\ LET r == is_circuit_open(now, circuit_open_time, failure_count)
       IN  /\ failure_count' = IF connected THEN r.failure_count ELSE failure_count
           /\ circuit_open_time' = IF connected THEN r.circuit_open_time
                                    ELSE circuit_open_time
           /\ consec' = IF connected /\ circuit_open_time # NoTime
                              /\ r.circuit_open_time = NoTime
                        THEN 0 ELSE consec
           /\ q_obs' = [q_obs EXCEPT !.health =
                            [status |-> HealthStatus(connected, r.ret),
                             connected |-> connected,
                             seq |-> 1 - @.seq]]
    /\ UNCHANGED <<cvars, fvars, avars, now, q_pc, search_message, search_results, channel, delivered>>

\* The caller of a search takes its terminal message off the results queue; it
\* sends its next query after that.
CallerTake ==
    /\ q_pc = "idle"
    /\ channel # <<>>
    /\ channel' = Tail(channel)
    /\ UNCHANGED <<cvars, fvars, avars, now, failure_count, circuit_open_time, q_pc, search_message,
                   search_results, delivered, q_obs, consec>>

\* Time passes.
Tick ==
    /\ now + TickStep <= MaxTime
    /\ now' = now + TickStep
    /\ UNCHANGED <<cvars, fvars, avars, failure_count, circuit_open_time, q_pc, search_message,
                   search_results, channel, delivered, q_obs, consec>>

QNext ==
    \/ \E valid \in BOOLEAN : QReceive(valid)
    \/ \E faults \in EmbedderFaults : QEmbed(faults)
    \/ \E answer \in search_similar_vectors : QSearch(answer.ok, answer.matches)
    \/ \E broker_ok \in BOOLEAN : QPublishResults(broker_ok)
    \/ \E broker_ok \in BOOLEAN : QPublishError(broker_ok)
    \/ QExit
    \/ \E connected \in BOOLEAN : QHealthCheck(connected)
    \/ CallerTake
    \/ Tick

\* ------------------------------------------------ ArticleProcessingConsumer

\* Article messages delivered in one behaviour.
MaxDeliveries == 2
\* Paragraphs of the longest article content.
MaxParas == 2
\* Query messages handled by the instances side by side.
MaxFleetMsgs == 11
\* Calls of start_consuming in one behaviour.
MaxStarts == 2
\* Passes of the keep-alive loop counted in one call of start_consuming.
MaxSleeps == 2
\* Calls of disconnect from outside start_consuming (the shutdown of main.py).
MaxDisconnects == 2

\* BatchEmbeddingRequest.items: min_items, max_items
min_items == 1
max_items == 100

ArticleIds == {"a1"}
\* A paragraph of content; "" is one of whitespace only.
Paragraphs == {"", "p1", "p2"}
\* len() of a paragraph's text
CharCount(p) == CASE p = "p1" -> 6 [] p = "p2" -> 13 [] OTHER -> 0
\* The values settings.batch_size takes in the model.
BatchSizes == {1, 2, 100}

\* A content of one paragraph too long for one batch request: the Splitter cuts
\* it into max_items + 1 segments.
LongContent == <<"long">>
LongSegments == [i \in 1..(max_items + 1) |-> IF i % 2 = 1 THEN "p2" ELSE "p1"]

\* The non-empty contents: up to MaxParas paragraphs, each blank or text, the
\* paragraphs of text being "p2", "p1", "p2", ... so that neighbours differ.
Contents ==
    {LongContent} \cup
    {c \in SeqsUpTo(Paragraphs, MaxParas) \ {<<>>} :
        LET t == SelectSeq(c, LAMBDA p : p # "")
        IN  \A k \in 1..Len(t) : t[k] = IF k % 2 = 1 THEN "p2" ELSE "p1"}

NoRequest == [article_id |-> "none", title |-> "", content |-> <<>>, valid |-> FALSE]

NoArticleObs ==
    [raised |-> FALSE, settle |-> {}, failed_at |-> "none", store_failed |-> FALSE,
     segments |-> <<>>, ids_before |-> 0, embed_calls |-> 0, upload_calls |-> 0,
     upserts |-> 0, error |-> "none", redelivery |-> FALSE, first_chunks |-> <<>>]

\* text_splitter.split_text: the paragraphs that hold text, in order.
split_text(content) ==
    IF content = LongContent THEN LongSegments
    ELSE SelectSeq(content, LAMBDA p : p # "")

\* A variant of split_article that numbers the chunks after the rows the article
\* already has in the table.
split_article_continue(request, segments) ==
    LET stored == Cardinality({r \in article_chunks : r.article_id = request.article_id})
    IN  [i \in 1..Len(segments) |->
            [article_id |-> request.article_id,
             chunk_index |-> stored + i - 1,
             content |-> segments[i],
             token_count |-> CharCount(segments[i]) \div 4,
             character_count |-> CharCount(segments[i]),
             pinecone_id |-> "None"]]

\* A variant of split_article that numbers the chunks from 1.
split_article_from_one(request, segments) ==
    [i \in 1..Len(segments) |->
        [article_id |-> request.article_id,
         chunk_index |-> i,
         content |-> segments[i],
         token_count |-> CharCount(segments[i]) \div 4,
         character_count |-> CharCount(segments[i]),
         pinecone_id |-> "None"]]

\* split_article: one ChunkResponse per segment, in order.
split_article(request, segments) ==
    [i \in 1..Len(segments) |->
        [article_id |-> request.article_id,
         chunk_index |-> i - 1,
         content |-> segments[i],
         token_count |-> CharCount(segments[i]) \div 4,
         character_count |-> CharCount(segments[i]),
         pinecone_id |-> "None"]]

\* n fresh UUIDs after k have been generated.
FreshIds(k, n) == [i \in 1..n |-> k + i]

\* A variant that inserts the chunks last to first.
InsertedRows_reversed(cs, ids) ==
    {[id |-> ids[Len(cs) + 1 - i], article_id |-> cs[i].article_id,
      chunk_index |-> cs[i].chunk_index, content |-> cs[i].content,
      pinecone_id |-> cs[i].pinecone_id] : i \in 1..Len(cs)}

\* The rows store_chunks inserts for the chunks, with the ids the table generates.
InsertedRows(cs, ids) ==
    {[id |-> ids[i], article_id |-> cs[i].article_id, chunk_index |-> cs[i].chunk_index,
      content |-> cs[i].content, pinecone_id |-> cs[i].pinecone_id] : i \in 1..Len(cs)}

\* A variant that releases the connection only when the block is left normally.
PoolAfter_leak(held, raised) == IF raised THEN held ELSE held - 1

\* async with self.pool.acquire() as conn: the connection acquired on entry is
\* released when the block is left, by return or by exception.
PoolAfter(held, raised) == held - 1

\* A variant without the transaction: the rows inserted before the failure stay.
TransactionRows_autocommit(inserted, raised) == inserted

\* async with conn.transaction(): the rows inserted in it are committed when the
\* block is left normally and rolled back when it is left by an exception.
TransactionRows(inserted, raised) == IF raised THEN {} ELSE inserted

\* store_chunks: fail_at = 0 when every INSERT succeeds, else the row whose INSERT
\* raises; the rows before it were inserted inside the transaction.
store_chunks(cs, pool, fail_at, k) ==
    IF ~pool
    THEN [raised |-> TRUE, ids |-> <<>>, rows |-> {}]
    ELSE IF cs = <<>>
    THEN [raised |-> FALSE, ids |-> <<>>, rows |-> {}]
    ELSE LET raised == fail_at \in 1..Len(cs)
             done == IF raised THEN fail_at - 1 ELSE Len(cs)
             ids == FreshIds(k, done)
             inserted == InsertedRows(SubSeq(cs, 1, done), ids)
         IN  [raised |-> raised,
              ids |-> IF raised THEN <<>> ELSE ids,
              rows |-> TransactionRows(inserted, raised)]

\* chunk_ids = [uuid4() for _ in chunks]
GeneratedIds(cs, k) == FreshIds(k, Len(cs))

\* f"{processing_request.title}\n\n{chunk.content}"
embedding_text(title, content) == <<title, content>>

\* The vector the Embedder returns for a text.
EmbeddingOf(text) == [of |-> text]

\* A variant of BatchEmbeddingRequest without the bounds on items.
BatchRequestValid_unchecked(items) == TRUE

\* BatchEmbeddingRequest(items=...) validates the number of items.
BatchRequestValid(items) == Len(items) >= min_items /\ Len(items) <= max_items

\* The keyword arguments of the consumer's call of upload_embedding, and the
\* parameters upload_embedding declares.
UploadCallArgs == {"request", "vector_id"}
UploadEmbeddingParams == {"request"}

\* A variant in which upload_embedding declares the vector_id it is passed, its
\* body unchanged.
UploadCallBinds_declared == TRUE

\* The call binds: every argument passed is a declared parameter.
UploadCallBinds == UploadCallArgs \subseteq UploadEmbeddingParams

\* The vector upload_embedding upserts for a request.
VectorData(request) ==
    [id |-> request.article_id, values |-> request.embeddings,
     metadata |-> request.metadata]

\* The broker delivers again the request whose handling raised after the split.
Redelivered(request) ==
    /\ request.valid
    /\ request = processing_request
    /\ a_obs.raised
    /\ a_obs.failed_at \in {"batch_request", "embed", "upload"}

\* An article message is delivered, a new one or one delivered before: the parse
\* (json.loads and ArticleProcessingRequest(**message_data)).
AReceive(request) ==
    /\ BrokerDelivers(Unacked(a_pc))
    /\ a_delivered < MaxDeliveries
    /\ a_delivered' = a_delivered + 1
    /\ chunks' = <<>>
    /\ chunk_ids' = <<>>
    /\ embedding_results' = <<>>
    /\ embed_pos' = 0
    /\ upload_attempt' = 0
    /\ upload_count' = 0
    /\ IF request.valid
       THEN /\ processing_request' = request
            /\ a_pc' = "split"
            /\ a_obs' = [NoArticleObs EXCEPT
                            !.ids_before = next_id,
                            !.redelivery = Redelivered(request),
                            !.first_chunks = IF Redelivered(request) THEN chunks ELSE <<>>]
       ELSE /\ processing_request' = NoRequest
            /\ a_pc' = "exit"
            /\ a_obs' = [NoArticleObs EXCEPT !.ids_before = next_id,
                                             !.raised = TRUE, !.failed_at = "parse"]
    /\ UNCHANGED <<cvars, fvars, qvars, batch_size, pool_ok, pool_held, article_chunks, pinecone_index, next_id>>

\* A variant in which a failed split is logged and yields no chunks.
SplitFailureRaises_empty == FALSE

\* The except branch of split_article ends in `raise`, and the handler has no try
\* around the call other than its outermost one.
SplitFailureRaises == TRUE

\* Step 1: chunking_svc.split_article returns the chunks or raises.
ASplit(ok) ==
    /\ a_pc = "split"
    /\ IF ok
       THEN LET segments == split_text(processing_request.content)
            IN  /\ chunks' = split_article(processing_request, segments)
                /\ a_obs' = [a_obs EXCEPT !.segments = segments]
                /\ a_pc' = "store"
       ELSE IF SplitFailureRaises
       THEN /\ a_obs' = [a_obs EXCEPT !.raised = TRUE, !.failed_at = "split"]
            /\ a_pc' = "exit"
            /\ UNCHANGED chunks
       ELSE /\ a_obs' = [a_obs EXCEPT !.failed_at = "split"]
            /\ a_pc' = "store"
            /\ UNCHANGED chunks
    /\ UNCHANGED <<cvars, fvars, qvars, batch_size, pool_ok, pool_held, processing_request, chunk_ids, embedding_results,
                   embed_pos, upload_attempt, upload_count, article_chunks, pinecone_index, next_id,
                   a_delivered>>

\* Step 2: store_chunks, with generated ids if it raises; then the embedding
\* requests and the BatchEmbeddingRequest are built.
AStore(fail_at) ==
    /\ a_pc = "store"
    /\ LET st  == store_chunks(chunks, pool_ok, fail_at, next_id)
           ids == IF st.raised THEN GeneratedIds(chunks, next_id) ELSE st.ids
           embedding_requests ==
               [i \in 1..Len(chunks) |->
                   [article_id |-> chunks[i].article_id,
                    text |-> embedding_text(processing_request.title, chunks[i].content)]]
       IN  /\ chunk_ids' = ids
           /\ article_chunks' = article_chunks \cup st.rows
           /\ pool_held' = IF pool_ok /\ chunks # <<>>
                           THEN PoolAfter(pool_held + 1, st.raised) ELSE pool_held
           /\ next_id' = next_id + Len(ids)
           /\ IF BatchRequestValid(embedding_requests)
              THEN /\ a_pc' = "embed"
                   /\ a_obs' = [a_obs EXCEPT !.store_failed = st.raised]
              ELSE /\ a_pc' = "exit"
                   /\ a_obs' = [a_obs EXCEPT !.store_failed = st.raised,
                                             !.raised = TRUE, !.failed_at = "batch_request"]
    /\ UNCHANGED <<cvars, fvars, qvars, batch_size, pool_ok, processing_request, chunks,
                   embedding_results, embed_pos, upload_attempt, upload_count, pinecone_index,
                   a_delivered>>

\* A variant that slices every batch from the start of the list.
BatchItems_restart(cs, pos, size) ==
    SubSeq(cs, 1, IF size < Len(cs) THEN size ELSE Len(cs))

\* The items of the batch that starts after pos items.
BatchItems(cs, pos, size) ==
    SubSeq(cs, pos + 1, IF pos + size < Len(cs) THEN pos + size ELSE Len(cs))

\* A variant that logs the failed batch and goes on.
EmbedFailureRaises_swallow == FALSE

\* `raise chunk_error` and the outer `raise` of generate_batch_embeddings: a batch
\* that fails ends the request.
EmbedFailureRaises == TRUE

\* The number of triples zip(chunks, embedding_response.results, chunk_ids) yields.
ZipLen(cs, rs, ids) ==
    CHOOSE n \in {Len(cs), Len(rs), Len(ids)} : n <= Len(cs) /\ n <= Len(rs) /\ n <= Len(ids)

\* Step 3: one pass of the loop of generate_batch_embeddings: embed_documents on
\* the next batch returns its vectors or raises.
AEmbedBatch(ok) ==
    /\ a_pc = "embed"
    /\ LET batch == BatchItems(chunks, embed_pos, batch_size)
           batch_results ==
               [i \in 1..Len(batch) |->
                   [article_id |-> batch[i].article_id,
                    embeddings |-> EmbeddingOf(
                        embedding_text(processing_request.title, batch[i].content))]]
           got == IF ok THEN batch_results ELSE <<>>
           more == embed_pos + batch_size < Len(chunks)
       IN  IF ok \/ ~EmbedFailureRaises
           THEN /\ embedding_results' = embedding_results \o got
                /\ embed_pos' = embed_pos + Len(batch)
                /\ a_pc' = IF more THEN "embed"
                           ELSE IF ZipLen(chunks, embedding_results \o got, chunk_ids) > 0
                           THEN "upload" ELSE "exit"
                /\ a_obs' = [a_obs EXCEPT !.embed_calls = @ + 1,
                                          !.failed_at = IF ok THEN @ ELSE "embed"]
           ELSE /\ a_pc' = "exit"
                /\ a_obs' = [a_obs EXCEPT !.embed_calls = @ + 1,
                                          !.raised = TRUE, !.failed_at = "embed"]
                /\ UNCHANGED <<embedding_results, embed_pos>>
    /\ UNCHANGED <<cvars, fvars, qvars, batch_size, pool_ok, pool_held, processing_request, chunks, chunk_ids,
                   upload_attempt, upload_count, article_chunks, pinecone_index, next_id,
                   a_delivered>>

\* str(chunk_id)
StrOfId(id) == ToString(id)

\* The errors the spec classes as transient: rate limit, timeout, connection reset.
TransientErrors == {"RateLimit", "Timeout", "ConnectionReset"}

\* The error of an attempt of the upload_embedding call that does not return: the
\* TypeError of a call that does not bind, else an error of the Pinecone client.
AttemptError == IF UploadCallBinds THEN "ConnectionReset" ELSE "TypeError"

\* @retry(...) is given no retry= predicate: tenacity then retries on every
\* exception, whatever its type.
RetriesOn(error) == TRUE

\* A variant that stops one attempt late.
StopAfterAttempt_late(attempt) == attempt > max_retries

\* stop=stop_after_attempt(settings.max_retries)
StopAfterAttempt(attempt) == attempt >= max_retries

\* reraise=True: when the attempts are used up the error of the last attempt is
\* raised, not a RetryError around it.
FinalError(error) == error

\* update_chunk_pinecone_id: raises without a pool or when the UPDATE raises;
\* else sets pinecone_id on the row with that id and returns whether one was found.
update_chunk_pinecone_id(rows, pool, update_raises, chunk_id, pinecone_id) ==
    IF ~pool \/ update_raises
    THEN [raised |-> TRUE, ret |-> FALSE, rows |-> rows]
    ELSE [raised |-> FALSE,
          ret |-> \E r \in rows : r.id = chunk_id,
          rows |-> {IF r.id = chunk_id THEN [r EXCEPT !.pinecone_id = pinecone_id] ELSE r :
                      r \in rows}]

\* A variant in which a failed upload is logged and ends the loop.
UploadFailureRaises_logged == FALSE

\* upload_embedding is awaited in the loop with no try of its own: its exception
\* reaches the outermost except, which ends in `raise`.
UploadFailureRaises == TRUE

\* Step 4: one attempt of the retried upload_embedding call for the next triple of
\* zip(chunks, results, chunk_ids), and after a call that returned the back-write
\* of the vector id, whose failure is logged only. The call passes vector_id, which
\* upload_embedding does not declare: each attempt raises TypeError before the body
\* runs, and the last one is re-raised.
AUploadAttempt(upsert_ok, update_raises) ==
    /\ a_pc = "upload"
    /\ LET i == upload_count + 1
           chunk_id == chunk_ids[i]
           pinecone_vector_id == StrOfId(chunk_id)
           upload_request ==
               [article_id |-> chunks[i].article_id,
                embeddings |-> embedding_results[i].embeddings,
                metadata |-> [chunk_id |-> StrOfId(chunk_id),
                              chunk_index |-> chunks[i].chunk_index]]
           v == VectorData(upload_request)
           bw == update_chunk_pinecone_id(article_chunks, pool_ok, update_raises,
                                          chunk_id, pinecone_vector_id)
       IN  IF UploadCallBinds /\ upsert_ok
           THEN /\ pinecone_index' = [k \in DOMAIN pinecone_index \cup {v.id} |->
                                IF k = v.id THEN v ELSE pinecone_index[k]]
                /\ article_chunks' = bw.rows
                /\ pool_held' = IF pool_ok THEN PoolAfter(pool_held + 1, bw.raised)
                                ELSE pool_held
                /\ upload_count' = upload_count + 1
                /\ upload_attempt' = 0
                /\ a_pc' = IF upload_count + 1 < ZipLen(chunks, embedding_results, chunk_ids)
                           THEN "upload" ELSE "exit"
                /\ a_obs' = [a_obs EXCEPT !.upload_calls = @ + 1, !.upserts = @ + 1]
           ELSE /\ UNCHANGED <<pinecone_index, article_chunks, upload_count, pool_held>>
                /\ upload_attempt' = upload_attempt + 1
                /\ IF ~RetriesOn(AttemptError) \/ StopAfterAttempt(upload_attempt + 1)
                   THEN /\ a_pc' = "exit"
                        /\ a_obs' = [a_obs EXCEPT !.upload_calls = @ + 1,
                                                  !.raised = UploadFailureRaises,
                                                  !.failed_at = "upload",
                                                  !.error = FinalError(AttemptError)]
                   ELSE /\ a_pc' = "upload"
                        /\ a_obs' = [a_obs EXCEPT !.upload_calls = @ + 1,
                                                  !.error = AttemptError]
    /\ UNCHANGED <<cvars, fvars, qvars, batch_size, pool_ok, processing_request, chunks, chunk_ids,
                   embedding_results, embed_pos, next_id, a_delivered>>

\* Leaving `async with message.process()`: the message is settled.
AExit ==
    /\ a_pc = "exit"
    /\ a_obs' = [a_obs EXCEPT !.settle = @ \cup {ProcessExit(a_obs.raised)}]
    /\ a_pc' = "idle"
    /\ UNCHANGED <<cvars, fvars, qvars, batch_size, pool_ok, pool_held, processing_request, chunks, chunk_ids,
                   embedding_results, embed_pos, upload_attempt, upload_count, article_chunks,
                   pinecone_index, next_id, a_delivered>>

\* ------------------------------------------------ instances side by side
\* The QuerySearchConsumer processes that consume from queue "query_search".
Instances == {"i1", "i2"}

\* The breaker fields as __init__ sets them.
NoBreaker == [failure_count |-> 0, circuit_open_time |-> NoTime]

\* A variant with one breaker for all instances.
BreakerOwner_shared(i) == "i1"

\* The object whose fields the handler of instance i reads and writes: self, the
\* one QuerySearchConsumer its process has constructed.
BreakerOwner(i) == i

\* Instance i handles one query message from the breaker check to the end:
\* dropped if its breaker is open, else counted as a success or as a failure.
FleetHandle(i, failed) ==
    /\ f_handled < MaxFleetMsgs
    /\ LET o  == BreakerOwner(i)
           r  == is_circuit_open(now, breakers[o].circuit_open_time, breakers[o].failure_count)
           rf == record_failure(now, r.circuit_open_time, r.failure_count)
       IN  /\ breakers' = [breakers EXCEPT ![o] =
                  IF r.ret
                  THEN [failure_count |-> r.failure_count,
                        circuit_open_time |-> r.circuit_open_time]
                  ELSE IF failed
                  THEN [failure_count |-> rf.failure_count,
                        circuit_open_time |-> rf.circuit_open_time]
                  ELSE [failure_count |-> record_success(r.failure_count),
                        circuit_open_time |-> r.circuit_open_time]]
           /\ f_failed' = IF ~r.ret /\ failed THEN f_failed + 1 ELSE f_failed
    /\ f_handled' = f_handled + 1
    /\ f_last' = i
    /\ UNCHANGED <<cvars, qvars, avars>>

FleetNext ==
    \/ \E i \in Instances, failed \in BOOLEAN : FleetHandle(i, failed)
    \/ Tick

\* ------------------------------------------- the life of the article consumer

NoConsumerObs == [starts |-> 0, sleeps |-> 0, disconnects |-> 0]

\* start_consuming is not in progress.
CNotStarted == c_pc \in {"idle", "returned", "raised"}

\* How connect() can end: it returns; connect_robust raises, so that
\* self.connection is not assigned; or connect_robust returns and a later call
\* (channel, set_qos, declare_queue) raises.
ConnectOutcomes == {"ok", "no_connection", "after_connection"}

\* disconnect: closes the connection if there is one and it is open.
disconnect(conn) == IF conn = "open" THEN "closed" ELSE conn

\* start_consuming is called: it connects first unless the connection is open.
CStart ==
    /\ CNotStarted
    /\ c_obs.starts < MaxStarts
    /\ c_pc' = IF connection # "open" THEN "connect" ELSE "try"
    /\ c_obs' = [c_obs EXCEPT !.starts = @ + 1, !.sleeps = 0]
    /\ UNCHANGED <<qvars, avars, fvars, is_running, connection>>

\* `await self.connect()`, which stands above the try block of start_consuming:
\* what connect raises leaves start_consuming at once.
CConnect(outcome) ==
    /\ c_pc = "connect"
    /\ connection' = IF outcome = "no_connection" THEN connection ELSE "open"
    /\ c_pc' = IF outcome = "ok" THEN "try" ELSE "raised"
    /\ UNCHANGED <<qvars, avars, fvars, is_running, c_obs>>

\* self.is_running = True, the first assignment in the try block.
CSetRunning ==
    /\ c_pc = "try"
    /\ is_running' = TRUE
    /\ c_pc' = "consume"
    /\ UNCHANGED <<qvars, avars, fvars, connection, c_obs>>

\* await self.queue.consume(...): it returns, or raises into except and finally.
CConsume(ok) ==
    /\ c_pc = "consume"
    /\ c_pc' = IF ok THEN "loop" ELSE "finally_raise"
    /\ UNCHANGED <<qvars, avars, fvars, is_running, connection, c_obs>>

\* while self.is_running: await asyncio.sleep(1)
CLoop ==
    /\ c_pc = "loop"
    /\ IF is_running
       THEN /\ c_obs.sleeps < MaxSleeps
            /\ c_obs' = [c_obs EXCEPT !.sleeps = @ + 1]
            /\ c_pc' = "loop"
       ELSE /\ c_pc' = "finally_return"
            /\ UNCHANGED c_obs
    /\ UNCHANGED <<qvars, avars, fvars, is_running, connection>>

\* finally: await self.disconnect(); then the return, or the exception raised
\* again.
CFinally ==
    /\ c_pc \in {"finally_return", "finally_raise"}
    /\ connection' = disconnect(connection)
    /\ c_pc' = IF c_pc = "finally_return" THEN "returned" ELSE "raised"
    /\ UNCHANGED <<qvars, avars, fvars, is_running, c_obs>>

\* stop_consuming
CStop ==
    /\ is_running' = FALSE
    /\ UNCHANGED <<qvars, avars, fvars, c_pc, connection, c_obs>>

\* disconnect called from outside start_consuming, as the shutdown does.
CDisconnect ==
    /\ c_obs.disconnects < MaxDisconnects
    /\ connection' = disconnect(connection)
    /\ c_obs' = [c_obs EXCEPT !.disconnects = @ + 1]
    /\ UNCHANGED <<qvars, avars, fvars, c_pc, is_running>>

CNext ==
    \/ CStart
    \/ \E outcome \in ConnectOutcomes : CConnect(outcome)
    \/ CSetRunning
    \/ \E ok \in BOOLEAN : CConsume(ok)
    \/ CLoop
    \/ CFinally
    \/ CStop
    \/ CDisconnect

\* The article messages a producer can send.
Requests ==
    [article_id : ArticleIds, title : {"T"}, content : Contents, valid : BOOLEAN]

\* The state after construction of both consumers and their services.
Init ==
    /\ now = 0
    /\ failure_count = 0
    /\ circuit_open_time = NoTime
    /\ q_pc = "idle"
    /\ search_message = NoMsg
    /\ search_results = <<>>
    /\ channel = <<>>
    /\ delivered = 0
    /\ q_obs = NoObs
    /\ consec = 0
    /\ batch_size \in BatchSizes
    /\ pool_ok \in BOOLEAN
    /\ a_pc = "idle"
    /\ processing_request = NoRequest
    /\ chunks = <<>>
    /\ chunk_ids = <<>>
    /\ embedding_results = <<>>
    /\ embed_pos = 0
    /\ upload_attempt = 0
    /\ upload_count = 0
    /\ pool_held = 0
    /\ article_chunks = {}
    /\ pinecone_index = <<>>
    /\ next_id = 0
    /\ a_delivered = 0
    /\ a_obs = NoArticleObs
    /\ breakers = [i \in Instances |-> NoBreaker]
    /\ f_handled = 0
    /\ f_failed = 0
    /\ f_last = "none"
    /\ c_pc = "idle"
    /\ is_running = FALSE
    /\ connection = "none"
    /\ c_obs = NoConsumerObs

ANext ==
    \/ \E request \in Requests : AReceive(request)
    \/ \E ok \in BOOLEAN : ASplit(ok)
    \/ \E fail_at \in 0..MaxParas : AStore(fail_at)
    \/ \E ok \in BOOLEAN : AEmbedBatch(ok)
    \/ \E upsert_ok, update_raises \in BOOLEAN : AUploadAttempt(upsert_ok, update_raises)
    \/ AExit

\* The QuerySearchConsumer alone, beside an idle article consumer.
QueryInit == Init /\ batch_size = 100 /\ pool_ok = TRUE
QuerySpec == QueryInit /\ [][QNext]_vars

\* Two QuerySearchConsumer processes, each message handled in one step.
FleetSpec == QueryInit /\ [][FleetNext]_vars

\* The life of one ArticleProcessingConsumer. The event loop runs every coroutine
\* that is ready, so the steps of start_consuming are taken in the end.
CStartStep == CSetRunning \/ (\E ok \in BOOLEAN : CConsume(ok)) \/ CLoop \/ CFinally
ConsumerSpec == QueryInit /\ [][CNext]_vars /\ WF_vars(CStartStep)

\* The ArticleProcessingConsumer alone, beside an idle query consumer.
ArticleSpec == Init /\ [][ANext]_vars

\* A step of the handler between the delivery of a message and its settlement.
AHandlerStep ==
    \/ \E ok \in BOOLEAN : ASplit(ok)
    \/ \E fail_at \in 0..MaxParas : AStore(fail_at)
    \/ \E ok \in BOOLEAN : AEmbedBatch(ok)
    \/ \E upsert_ok, update_raises \in BOOLEAN : AUploadAttempt(upsert_ok, update_raises)
    \/ AExit

\* The article consumer with settings.batch_size = 1, the setting under which
\* generate_batch_embeddings makes the most passes of its loop.
FairArticleInit == Init /\ batch_size = 1

\* Every call the handler awaits returns or raises, so a message being handled
\* eventually takes its next step.
FairArticleSpec == FairArticleInit /\ [][ANext]_vars /\ WF_vars(AHandlerStep)

\* ---------------------------------------------------------------- claims

\* Messages on the results channel that carry search_id id.
OnChannel(id) == Cardinality({i \in 1..Len(channel) : channel[i].search_id = id})

\* The handler of the message delivered last has made all its publishes.
QDone == q_pc = "exit"

\* The breaker was OPEN, inside the cooldown, when the last message arrived.
ArrivedInsideCooldown ==
    /\ q_obs.open_entry # NoTime
    /\ q_obs.t_entry - q_obs.open_entry < circuit_timeout

\* The breaker was OPEN and the cooldown over when the last message arrived.
ArrivedAfterCooldown ==
    /\ q_obs.open_entry # NoTime
    /\ q_obs.t_entry - q_obs.open_entry > circuit_timeout

\* C1, as stated: a message that arrives with the breaker CLOSED gets exactly one
\* terminal message on the results channel, one that arrives with it OPEN gets none.
C1_Original ==
    QDone =>
        /\ q_obs.gate = "closed" => OnChannel(q_obs.search_id) = 1
        /\ q_obs.gate = "open" => OnChannel(q_obs.search_id) = 0

\* C1, amended: a message that arrives with the breaker CLOSED and parses gets
\* exactly one terminal publish attempt (response or error, never both), and the
\* results channel holds at most one message with its search_id: one if the broker
\* took the publish, none otherwise; a message that does not parse, or that arrives
\* with the breaker OPEN, gets no publish at all.
C1_OneTerminalPublish ==
    /\ \A i \in 1..Len(channel) : channel[i].search_id = q_obs.search_id
    /\ OnChannel(q_obs.search_id) <= 1
    /\ QDone =>
        /\ q_obs.gate = "open" =>
              q_obs.pubs = <<>> /\ OnChannel(q_obs.search_id) = 0
        /\ q_obs.gate = "closed" /\ q_obs.outcome = "failed_parse" =>
              q_obs.pubs = <<>> /\ OnChannel(q_obs.search_id) = 0
        /\ q_obs.gate = "closed" /\ q_obs.outcome # "failed_parse" =>
              /\ Len(q_obs.pubs) = 1
              /\ q_obs.pubs[1] = (IF q_obs.outcome = "success" THEN "response" ELSE "error")
              /\ OnChannel(q_obs.search_id) = q_obs.sent
              /\ \A i \in 1..Len(channel) : channel[i].kind = q_obs.pubs[1]

C1_Witness ==
    /\ QDone
    /\ q_obs.gate = "closed"
    /\ q_obs.outcome = "failed_search"
    /\ OnChannel(q_obs.search_id) = 1
    /\ channel[1].kind = "error"

\* C2: a message that arrives while the breaker is OPEN, less than the cooldown
\* after it opened, is dropped: no Embedder or VectorStore call, no publish, and the
\* message is acknowledged, never rejected; so for every message in the window.
C2_OpenDrops ==
    ArrivedInsideCooldown =>
        /\ q_obs.gate = "open"
        /\ q_obs.outcome = "dropped"
        /\ q_obs.calls = {}
        /\ q_obs.pubs = <<>>
        /\ OnChannel(q_obs.search_id) = 0
        /\ q_pc \in {"exit", "idle"}
        /\ "reject" \notin q_obs.settle
        /\ q_pc = "idle" => q_obs.settle = {"ack"}

\* The second message dropped in one cooldown window has been acknowledged.
C2_Witness ==
    /\ ArrivedInsideCooldown
    /\ q_obs.search_id = max_failures + 2
    /\ q_pc = "idle"
    /\ q_obs.settle = {"ack"}
    /\ channel = <<>>

\* C3: the breaker is OPEN exactly when the failed messages in a row, counted from
\* the last success or reset, have reached max_failures; with fewer it is CLOSED.
C3_OpensAtThreshold ==
    /\ consec <= max_failures
    /\ circuit_open_time # NoTime <=> consec >= max_failures

C3_Witness ==
    /\ circuit_open_time # NoTime
    /\ consec = max_failures
    /\ delivered > max_failures

\* C4: a message that arrives after the cooldown finds the breaker closed again:
\* it is not dropped, the breaker state is reset, and it is embedded, searched and
\* answered as under CLOSED.
C4_ClosesAfterCooldown ==
    ArrivedAfterCooldown =>
        /\ q_obs.gate = "closed"
        /\ q_obs.outcome # "dropped"
        /\ q_pc = "embed" => circuit_open_time = NoTime /\ failure_count = 0
        /\ q_obs.outcome = "none" => q_pc \in {"embed", "search", "publish"}
        /\ q_pc \in {"exit", "idle"} /\ q_obs.outcome # "failed_parse" =>
              /\ "embed" \in q_obs.calls
              /\ q_obs.outcome # "failed_embed" => "search" \in q_obs.calls
              /\ Len(q_obs.pubs) = 1

C4_Witness ==
    /\ ArrivedAfterCooldown
    /\ q_pc = "idle"
    /\ q_obs.outcome = "success"
    /\ q_obs.calls = {"embed", "search"}

\* C5: once a message has been handled successfully, failure_count is 0 and the
\* breaker is CLOSED, whatever failure_count was when the message arrived.
C5_SuccessResets ==
    q_obs.outcome = "success" => failure_count = 0 /\ circuit_open_time = NoTime

C5_Witness ==
    /\ q_obs.outcome = "success"
    /\ q_pc = "exit"
    /\ q_obs.fc_before = max_failures - 1

\* C7, as stated: a query message whose handling fails at the Embedder or the
\* VectorStore, with the breaker CLOSED at entry, is rejected.
C7_Original ==
    (q_pc = "idle" /\ q_obs.gate = "closed"
        /\ q_obs.outcome \in {"failed_embed", "failed_search"})
    => q_obs.settle = {"reject"}

\* C7, amended: such a message is acknowledged, never rejected: the failure is
\* recorded on the breaker and answered with a QuerySearchError publish.
C7_FailureAcked ==
    (q_obs.gate = "closed" /\ q_obs.outcome \in {"failed_embed", "failed_search"})
    => /\ ~q_obs.raised
       /\ "reject" \notin q_obs.settle
       /\ q_pc = "idle" => q_obs.settle = {"ack"} /\ q_obs.pubs = <<"error">>

C7_Witness ==
    /\ q_pc = "idle"
    /\ q_obs.gate = "closed"
    /\ q_obs.outcome = "failed_embed"
    /\ q_obs.settle = {"ack"}

\* The last article message is in the hands of the handler.
AHandling == a_pc # "idle"

\* The broker outcome of the article message delivered last is consistent: never
\* both acknowledged and rejected, settled once the handler is left, acknowledged
\* only after the whole pipeline ran without a raise, rejected if it raised.
ASettledOnce ==
    /\ Cardinality(a_obs.settle) <= 1
    /\ AHandling => a_obs.settle = {}
    /\ (a_pc = "idle" /\ a_delivered > 0) => Cardinality(a_obs.settle) = 1
    /\ "ack" \in a_obs.settle =>
          /\ ~a_obs.raised
          /\ a_obs.failed_at = "none"
          /\ a_obs.upserts = Len(chunks)
    /\ (a_pc = "idle" /\ a_obs.raised) => a_obs.settle = {"reject"}
    /\ "reject" \in a_obs.settle => a_obs.raised

\* C6: every article message delivered is settled, and with exactly one of
\* acknowledge and reject: acknowledged only if the handler ran its whole pipeline
\* and returned, rejected if it raised.
C6_AckOrReject == []ASettledOnce /\ (AHandling ~> ~AHandling)

C6_Witness ==
    /\ a_pc = "idle"
    /\ a_obs.settle = {"reject"}
    /\ a_obs.failed_at = "embed"
    /\ a_delivered = 2

\* C8, as stated: when store_chunks fails for an article with n >= 1 segments and
\* the Embedder answers, the VectorStore gets n upserts and the message is
\* acknowledged.
C8_Original ==
    (a_pc = "idle" /\ a_obs.store_failed /\ Len(chunks) >= 1
        /\ a_obs.failed_at # "embed")
    => /\ a_obs.settle = {"ack"}
       /\ a_obs.upserts = Len(chunks)
       /\ \A i \in 1..Len(chunks) : StrOfId(chunk_ids[i]) \in DOMAIN pinecone_index

\* C9: when the Embedder fails on a batch, the handler raises, the message is
\* rejected, and no upload to the VectorStore was tried or made for the article in
\* this handling, however many batches had succeeded before.
C9_EmbedFailureFailsMessage ==
    a_obs.failed_at = "embed" =>
        /\ a_obs.raised
        /\ a_pc \in {"exit", "idle"}
        /\ a_obs.upload_calls = 0
        /\ a_obs.upserts = 0
        /\ Len(embedding_results) < Len(chunks)
        /\ a_pc = "idle" => a_obs.settle = {"reject"}

\* The second batch failed after the first had succeeded.
C9_Witness ==
    /\ a_obs.failed_at = "embed"
    /\ a_obs.embed_calls = 2
    /\ Len(embedding_results) = 1
    /\ a_obs.settle = {"reject"}

\* C10: split_article yields one chunk per segment of the Splitter, the i-th chunk
\* holding the i-th segment, with chunk_index running 0..n-1.
C10_ChunksMatchSegments ==
    /\ Len(chunks) = Len(a_obs.segments)
    /\ \A i \in 1..Len(chunks) :
          /\ chunks[i].content = a_obs.segments[i]
          /\ chunks[i].chunk_index = i - 1
          /\ chunks[i].article_id = processing_request.article_id
    /\ {chunks[i].chunk_index : i \in 1..Len(chunks)} = 0..(Len(chunks) - 1)
    /\ a_pc \in {"store", "embed", "upload"} =>
          a_obs.segments = split_text(processing_request.content)

C10_Witness ==
    /\ a_pc = "store"
    /\ Len(chunks) = 2
    /\ chunks[1].content = "p2"
    /\ chunks[2].content = "p1"
    /\ chunks[2].chunk_index = 1

\* The rows of table article_chunks that belong to article a.
RowsOf(a) == {r \in article_chunks : r.article_id = a}

\* C11: the rows of one article_id carry chunk_index values that are pairwise
\* distinct and form the contiguous sequence 0..k-1, also after a message that
\* failed at a later step was delivered again.
C11_Original ==
    \A a \in ArticleIds :
        /\ \A r1, r2 \in RowsOf(a) : r1.chunk_index = r2.chunk_index => r1 = r2
        /\ {r.chunk_index : r \in RowsOf(a)} = 0..(Cardinality(RowsOf(a)) - 1)

C13_Original ==
    (a_obs.upload_calls > 0 /\ a_pc \in {"exit", "idle"}) =>
        /\ Cardinality({StrOfId(chunk_ids[i]) : i \in 1..Len(chunks)} \cap
                       DOMAIN pinecone_index) = Len(chunks)
        /\ \A i \in 1..Len(chunks) :
              pinecone_index[StrOfId(chunk_ids[i])].metadata.chunk_id = StrOfId(chunk_ids[i])

\* C14: with the ChunkStore pool missing, update_chunk_pinecone_id raises for
\* every chunk; a message whose upload loop was run is all the same upserted whole,
\* the handler returns and the message is acknowledged.
C14_Original ==
    (a_pc = "idle" /\ ~pool_ok /\ a_obs.upload_calls > 0) =>
        /\ ~a_obs.raised
        /\ upload_count = Len(chunks)
        /\ a_obs.settle = {"ack"}

\* store_chunks was called in the handling of the message delivered last.
AStoreRan ==
    \/ a_pc \in {"embed", "upload"}
    \/ a_pc \in {"exit", "idle"} /\ a_obs.failed_at \in {"batch_request", "embed", "upload"}

\* The rows inserted since the message delivered last arrived.
RowsOfCall == {r \in article_chunks : r.id > a_obs.ids_before}

\* C15: store_chunks is all-or-nothing: after a call that raised none of its rows
\* is in the table; after a call that returned the table holds one row per chunk
\* and the call returned their ids, one per chunk in chunk order.
C15_AllOrNothing ==
    AStoreRan =>
        IF a_obs.store_failed
        THEN RowsOfCall = {}
        ELSE /\ Len(chunk_ids) = Len(chunks)
             /\ Cardinality(RowsOfCall) = Len(chunks)
             /\ \A i \in 1..Len(chunks) :
                   \E r \in RowsOfCall :
                       /\ r.id = chunk_ids[i]
                       /\ r.article_id = chunks[i].article_id
                       /\ r.chunk_index = chunks[i].chunk_index
                       /\ r.content = chunks[i].content

\* An INSERT of a call with two chunks raised with the pool in place, and a call
\* with two chunks returned.
C15_Witness ==
    /\ AStoreRan
    /\ pool_ok
    /\ Len(chunks) = 2
    /\ a_obs.store_failed
    /\ a_delivered = 2
    /\ Cardinality(article_chunks) = 2

\* C16: when split_article raises, the handler raises and the message is rejected,
\* and that handling has inserted no row, generated no id, called the Embedder
\* not once and upserted nothing.
C16_SplitFailureFatal ==
    a_obs.failed_at = "split" =>
        /\ a_obs.raised
        /\ a_pc \in {"exit", "idle"}
        /\ chunks = <<>> /\ chunk_ids = <<>>
        /\ RowsOfCall = {}
        /\ next_id = a_obs.ids_before
        /\ a_obs.embed_calls = 0
        /\ a_obs.upload_calls = 0
        /\ a_obs.upserts = 0
        /\ a_pc = "idle" => a_obs.settle = {"reject"}

\* The split of a redelivered message failed and the message was rejected, the
\* rows of its first handling still in the table.
C16_Witness ==
    /\ a_pc = "idle"
    /\ a_obs.failed_at = "split"
    /\ a_obs.settle = {"reject"}
    /\ a_delivered = 2
    /\ article_chunks # {}

\* C17: a VectorStore call whose attempt fails with an error that is not transient
\* is attempted once and the error is raised at once: the handler has raised after
\* the first such attempt.
C17_Original ==
    (a_obs.error # "none" /\ a_obs.error \notin TransientErrors) =>
        /\ a_obs.upload_calls = 1
        /\ a_obs.raised

\* C18: a retried VectorStore call that keeps failing is attempted max_retries
\* times and no more, and then raises the error of its last attempt to the
\* handler, which raises.
C18_BoundedRetry ==
    /\ upload_attempt <= max_retries
    /\ a_pc = "upload" => upload_attempt < max_retries
    /\ a_obs.failed_at = "upload" =>
          /\ upload_attempt = max_retries
          /\ a_obs.upload_calls = max_retries
          /\ a_obs.raised
          /\ a_obs.error = AttemptError
          /\ a_pc \in {"exit", "idle"}

\* The call failed max_retries times and the message was rejected.
C18_Witness ==
    /\ a_pc = "idle"
    /\ a_obs.failed_at = "upload"
    /\ upload_attempt = max_retries
    /\ a_obs.settle = {"reject"}

\* C19: an Embedder that raises a transient error and answers a later call within
\* the attempt bound does not fail the query message: the search is made and the
\* failure is not counted by the breaker.
C19_Original ==
    (q_obs.embed_faults >= 1 /\ q_obs.embed_faults < max_retries) =>
        /\ q_obs.outcome # "failed_embed"
        /\ "search" \in q_obs.calls

\* C20, as claimed: a query message whose body does not parse is rejected, with no
\* call made for it.
C20_Original ==
    (q_pc = "idle" /\ q_obs.outcome = "failed_parse") =>
        /\ q_obs.settle = {"reject"}
        /\ q_obs.calls = {}

\* C20, amended: a message whose body does not parse causes no Splitter, Embedder,
\* ChunkStore or VectorStore call and no publish in either consumer; the article
\* consumer raises and the message is rejected, the query consumer counts a
\* breaker failure, returns, and the message is acknowledged.
C20_MalformedNoWork ==
    /\ q_obs.outcome = "failed_parse" =>
          /\ q_obs.gate = "closed"
          /\ q_pc \in {"exit", "idle"}
          /\ q_obs.calls = {}
          /\ q_obs.pubs = <<>>
          /\ q_obs.sent = 0
          /\ search_message = NoMsg
          /\ ~q_obs.raised
          /\ q_pc = "idle" => q_obs.settle = {"ack"}
    /\ a_obs.failed_at = "parse" =>
          /\ a_obs.raised
          /\ a_pc \in {"exit", "idle"}
          /\ chunks = <<>> /\ chunk_ids = <<>>
          /\ a_obs.segments = <<>>
          /\ RowsOfCall = {}
          /\ next_id = a_obs.ids_before
          /\ a_obs.embed_calls = 0
          /\ a_obs.upload_calls = 0
          /\ a_pc = "idle" => a_obs.settle = {"reject"}

\* A malformed query message was acknowledged after it was counted as a failure.
C20_Witness ==
    /\ q_pc = "idle"
    /\ q_obs.outcome = "failed_parse"
    /\ q_obs.settle = {"ack"}
    /\ failure_count = q_obs.fc_before + 1

\* A malformed article message was rejected, rows of an earlier one in the table.
C20_ArticleWitness ==
    /\ a_pc = "idle"
    /\ a_obs.failed_at = "parse"
    /\ a_obs.settle = {"reject"}
    /\ article_chunks # {}

C21_QueryWitness ==
    /\ delivered = 2
    /\ q_pc = "search"
    /\ failure_count = 1

\* C22: the handling of a message by one instance leaves the failure_count and
\* the circuit_open_time of every other instance as they were.
C22_InstanceLocal ==
    [][f_handled' # f_handled =>
          \A j \in Instances \ {f_last'} : breakers'[j] = breakers[j]]_vars

\* One instance is open while the other is closed and has counted failures of
\* its own.
C22_Witness ==
    /\ breakers["i1"].circuit_open_time # NoTime
    /\ breakers["i2"].circuit_open_time = NoTime
    /\ breakers["i2"].failure_count = 2
    /\ f_last = "i2"

\* C23: all instances are open together only after max_failures failed query
\* messages for each of them have been handled.
C23_FleetThreshold ==
    (\A i \in Instances : breakers[i].circuit_open_time # NoTime) =>
        f_failed >= Cardinality(Instances) * max_failures

\* Both instances are open after exactly that many failures.
C23_Witness ==
    /\ \A i \in Instances : breakers[i].circuit_open_time # NoTime
    /\ f_failed = Cardinality(Instances) * max_failures

\* C24: a search that returns no match is a success: the response handed to the
\* broker carries an empty results list and total_found 0, no error is published
\* and the breaker records a success; every response on the results queue has
\* total_found equal to the length of its results.
C24_EmptyIsSuccess ==
    /\ \A i \in 1..Len(channel) :
          channel[i].kind = "response" => channel[i].total_found = Len(channel[i].results)
    /\ (q_obs.calls = {"embed", "search"} /\ search_results = <<>>
            /\ q_obs.outcome # "failed_search" /\ q_pc \in {"exit", "idle"}) =>
          /\ q_obs.outcome = "success"
          /\ q_obs.pubs = <<"response">>
          /\ ~q_obs.raised
          /\ failure_count = 0
          /\ \A i \in 1..Len(channel) :
                channel[i].search_id = q_obs.search_id =>
                    /\ channel[i].kind = "response"
                    /\ channel[i].results = <<>>
                    /\ channel[i].total_found = 0

\* After four failures a search without matches was answered with an empty
\* response, which is on the results queue.
C24_Witness ==
    /\ q_pc = "idle"
    /\ q_obs.fc_before = 4
    /\ q_obs.outcome = "success"
    /\ search_results = <<>>
    /\ Len(channel) = 1
    /\ channel[1].search_id = q_obs.search_id
    /\ channel[1].total_found = 0

\* C25: an article with n >= 1 segments on which no collaborator failed (the
\* chunks were stored and embedded, no attempt met a transient error) is processed
\* successfully: n embeddings were produced and n upserts made, the i-th vector
\* carrying the embedding, the id and the chunk_index of the i-th chunk.
C25_Original ==
    (a_pc = "idle" /\ Len(chunks) >= 1 /\ Len(embedding_results) = Len(chunks)
        /\ ~a_obs.store_failed
        /\ a_obs.failed_at \notin {"split", "batch_request", "embed"}
        /\ a_obs.error \notin TransientErrors) =>
        /\ a_obs.settle = {"ack"}
        /\ a_obs.upserts = Len(chunks)
        /\ \A i \in 1..Len(chunks) :
              \E k \in DOMAIN pinecone_index :
                  /\ pinecone_index[k].values = embedding_results[i].embeddings
                  /\ pinecone_index[k].metadata.chunk_id = StrOfId(chunk_ids[i])
                  /\ pinecone_index[k].metadata.chunk_index = chunks[i].chunk_index

\* C26: the batches of generate_batch_embeddings run one after the other in input
\* order, batch_size items at a time: the results obtained so far are those of the
\* first chunks, in order, and the number of batches started is the number
\* finished, plus the one that failed; after a failed batch no later batch is
\* started, the request raises and no result list, partial or not, reaches the
\* upload loop.
C26_SequentialBatches ==
    /\ Len(embedding_results) = embed_pos
    /\ embed_pos <= Len(chunks)
    /\ \A i \in 1..Len(embedding_results) :
          embedding_results[i] =
              [article_id |-> chunks[i].article_id,
               embeddings |-> EmbeddingOf(
                   embedding_text(processing_request.title, chunks[i].content))]
    /\ a_pc = "embed" => embed_pos % batch_size = 0
    /\ a_obs.embed_calls = ((embed_pos + batch_size - 1) \div batch_size)
                            + (IF a_obs.failed_at = "embed" THEN 1 ELSE 0)
    /\ a_pc = "upload" => Len(embedding_results) = Len(chunks)
    /\ a_obs.failed_at = "embed" =>
          /\ a_pc \in {"exit", "idle"}
          /\ a_obs.raised
          /\ a_obs.upload_calls = 0

\* With batch_size 1 and two chunks the first batch succeeded and the second
\* failed: one result is held, two batches were started, the request raised.
C26_Witness ==
    /\ batch_size = 1
    /\ Len(chunks) = 2
    /\ a_obs.failed_at = "embed"
    /\ a_obs.embed_calls = 2
    /\ Len(embedding_results) = 1
    /\ a_pc = "idle"
    /\ a_obs.settle = {"reject"}

C30_HealthStatus ==
    [][(q_obs'.health # q_obs.health /\ q_obs'.health.status # "none") =>
          q_obs'.health.status =
              IF ~q_obs'.health.connected THEN "unhealthy"
              ELSE IF circuit_open_time # NoTime /\ now - circuit_open_time <= circuit_timeout
                   THEN "degraded"
                   ELSE "healthy"]_vars

\* health_check answered 'unhealthy' for want of a connection while the breaker
\* was open.
C30_Witness ==
    /\ q_obs.health.status = "unhealthy"
    /\ ~q_obs.health.connected
    /\ circuit_open_time # NoTime
    /\ now - circuit_open_time <= circuit_timeout

\* health_check answered 'degraded' on an open connection.
C30_DegradedWitness ==
    /\ q_obs.health.status = "degraded"
    /\ q_obs.health.connected
    /\ circuit_open_time # NoTime

\* C31: failure_count stays within 0..max_failures, and while circuit_open_time is
\* set failure_count is max_failures: no failure is recorded on an open breaker.
C31_CountBounded ==
    /\ failure_count \in 0..max_failures
    /\ circuit_open_time # NoTime => failure_count = max_failures

\* The breaker opened, and a later message was dropped on it without a change of
\* the count.
C31_Witness ==
    /\ circuit_open_time # NoTime
    /\ failure_count = max_failures
    /\ q_obs.outcome = "dropped"
    /\ q_pc = "idle"
    /\ delivered = max_failures + 1

\* C32: every step of the handling of a message that found the breaker open leaves
\* failure_count and circuit_open_time as they were, calls neither the Embedder nor
\* the VectorStore and puts nothing on the results queue, whether or not the body
\* of the message can be parsed.
C32_OpenHandlingFrame ==
    [][(q_pc' # q_pc /\ q_obs'.gate = "open") =>
          /\ failure_count' = failure_count
          /\ circuit_open_time' = circuit_open_time
          /\ channel' = channel
          /\ q_obs'.calls = {}
          /\ q_obs'.pubs = <<>>
          /\ q_obs'.sent = 0
          /\ q_obs'.outcome = "dropped"]_vars

\* A message with a malformed body arrived on the open breaker, inside the
\* cooldown, and its handling ended with the breaker as it was.
C32_Witness ==
    /\ q_obs.gate = "open"
    /\ ~q_obs.body_valid
    /\ q_pc = "idle"
    /\ q_obs.settle = {"ack"}
    /\ circuit_open_time = q_obs.open_entry
    /\ failure_count = q_obs.fc_before
    /\ now - circuit_open_time <= circuit_timeout

\* C33: the reset after the cooldown clears failure_count together with
\* circuit_open_time, so the message that finds the cooldown over leaves the count
\* at 0, or at 1 if it fails itself, and the breaker closed; and the breaker opens
\* only on the failure that takes the count from max_failures - 1 to max_failures,
\* the last of max_failures failed messages in a row.
C33_ResetThenFullCount ==
    [][/\ (circuit_open_time # NoTime /\ circuit_open_time' = NoTime) =>
             failure_count' = IF delivered' # delivered /\ q_obs'.outcome = "failed_parse"
                              THEN 1 ELSE 0
       /\ (circuit_open_time' # NoTime /\ circuit_open_time' # circuit_open_time) =>
             /\ circuit_open_time = NoTime
             /\ failure_count = max_failures - 1
             /\ failure_count' = max_failures
             /\ consec' = max_failures]_vars

\* The breaker opened, closed after the cooldown and opened again, on the last of
\* max_failures failed messages in a row.
C33_Witness ==
    /\ q_obs.opens = 2
    /\ circuit_open_time # NoTime
    /\ failure_count = max_failures
    /\ consec = max_failures
    /\ delivered = 2 * max_failures + 1

\* The message that arrived after the cooldown closed the breaker and failed: one
\* failure is counted and the breaker is closed.
C33_SingleFailureWitness ==
    /\ q_obs.open_entry # NoTime
    /\ q_obs.gate = "closed"
    /\ q_obs.outcome \in {"failed_parse", "failed_embed", "failed_search"}
    /\ q_pc = "idle"
    /\ failure_count = 1
    /\ circuit_open_time = NoTime

\* C34: a call of health_check, at whatever point of a handling it runs, leaves
\* the handler where it is, never sets circuit_open_time and never raises
\* failure_count: either it leaves the breaker as it is, and so it does inside the
\* cooldown and without a connection, or the cooldown is over and it clears
\* circuit_open_time and sets failure_count to 0.
C34_HealthCheckFrame ==
    [][(q_obs'.health # q_obs.health /\ q_obs'.health.status # "none") =>
          /\ q_pc' = q_pc
          /\ channel' = channel
          /\ delivered' = delivered
          /\ \/ /\ failure_count' = failure_count
                /\ circuit_open_time' = circuit_open_time
             \/ /\ q_obs'.health.connected
                /\ circuit_open_time # NoTime
                /\ now - circuit_open_time > circuit_timeout
                /\ circuit_open_time' = NoTime
                /\ failure_count' = 0
          /\ (circuit_open_time # NoTime /\ now - circuit_open_time <= circuit_timeout) =>
                /\ failure_count' = failure_count
                /\ circuit_open_time' = circuit_open_time]_vars

\* The last message was dropped on the open breaker; since then the cooldown ran
\* out and health_check, not a handler, closed the breaker.
C34_Witness ==
    /\ q_pc = "idle"
    /\ q_obs.outcome = "dropped"
    /\ q_obs.health.status = "healthy"
    /\ circuit_open_time = NoTime
    /\ failure_count = 0

\* The handling of a message whose body cannot be parsed, found by a closed
\* breaker, publishes nothing and makes no call.
MalformedSilent ==
    (~q_obs.body_valid /\ q_obs.gate = "closed") =>
        /\ q_obs.outcome = "failed_parse"
        /\ q_pc \in {"exit", "idle"}
        /\ q_obs.calls = {}
        /\ q_obs.pubs = <<>>
        /\ q_obs.sent = 0
        /\ OnChannel(q_obs.search_id) = 0

\* C35: a message whose body cannot be parsed and that finds the breaker closed
\* (never opened, or just reset by the check) raises failure_count by one, opens
\* the breaker exactly when the count reaches max_failures, and publishes nothing,
\* neither a response nor an error.
C35_MalformedCounted ==
    /\ []MalformedSilent
    /\ [][(delivered' # delivered /\ ~q_obs'.body_valid /\ q_obs'.gate = "closed") =>
             /\ failure_count' =
                   (IF circuit_open_time # NoTime THEN 0 ELSE failure_count) + 1
             /\ circuit_open_time' =
                   IF failure_count' >= max_failures THEN now ELSE NoTime
             /\ channel' = channel]_vars

\* The fifth failed message in a row had a body that cannot be parsed: it opened
\* the breaker and nothing was published for it.
C35_Witness ==
    /\ ~q_obs.body_valid
    /\ q_obs.gate = "closed"
    /\ q_obs.fc_before = max_failures - 1
    /\ q_obs.opens = 1
    /\ circuit_open_time # NoTime
    /\ failure_count = max_failures
    /\ channel = <<>>
    /\ q_pc = "idle"

\* The handling in which the one publish that was tried failed at the broker.
PublishFailed == Len(q_obs.pubs) = 1 /\ q_obs.sent = 0

\* After a failed broker publish the handler has not raised, nothing stands in
\* for the lost message, and the query message is acknowledged.
PublishFailureSilent ==
    PublishFailed =>
        /\ ~q_obs.raised
        /\ q_pc \in {"exit", "idle"}
        /\ OnChannel(q_obs.search_id) = 0
        /\ q_obs.pubs = <<"response">> => q_obs.outcome = "success"
        /\ q_pc = "idle" => q_obs.settle = {"ack"}

\* C36: a broker publish that fails inside publish_search_results or
\* publish_search_error is swallowed: the step leaves circuit_open_time alone and
\* records no failure, failure_count being 0 after a failed result publish
\* (record_success ran) and unchanged after a failed error publish; no error is
\* published in place of the lost response and the message is acknowledged.
C36_PublishFailureSwallowed ==
    /\ []PublishFailureSilent
    /\ [][(Len(q_obs'.pubs) > Len(q_obs.pubs) /\ q_obs'.sent = q_obs.sent) =>
             /\ circuit_open_time' = circuit_open_time
             /\ failure_count' =
                   IF q_obs'.pubs = <<"response">> THEN 0 ELSE failure_count
             /\ q_pc' = "exit"
             /\ channel' = channel]_vars

\* After four failures a search succeeded but the publish of its response failed
\* at the broker: the count is back at 0, nothing is on the results queue and the
\* message is acknowledged.
C36_Witness ==
    /\ q_obs.fc_before = max_failures - 1
    /\ q_obs.pubs = <<"response">>
    /\ q_obs.sent = 0
    /\ failure_count = 0
    /\ channel = <<>>
    /\ q_pc = "idle"
    /\ q_obs.settle = {"ack"}

\* The publish of the error of a failed search failed at the broker: the failure
\* stays counted once and the message is acknowledged.
C36_ErrorWitness ==
    /\ q_obs.pubs = <<"error">>
    /\ q_obs.sent = 0
    /\ q_obs.fc_before = 0
    /\ failure_count = 1
    /\ q_pc = "idle"
    /\ q_obs.settle = {"ack"}

\* C37: when the upload of the k-th chunk has failed on its last attempt the
\* handler raises and the message is rejected, and nothing done before is undone:
\* the k-1 chunks before it were upserted and no other, the rows store_chunks
\* committed are all in the table, only rows of the chunks before k carry a
\* pinecone_id, and no call is made for a chunk after k.
C37_NoRollback ==
    a_obs.failed_at = "upload" =>
        /\ a_obs.raised
        /\ a_pc \in {"exit", "idle"}
        /\ a_pc = "idle" => a_obs.settle = {"reject"}
        /\ upload_count < Len(chunks)
        /\ a_obs.upserts = upload_count
        /\ upload_attempt = max_retries
        /\ upload_count > 0 =>
              \E k \in DOMAIN pinecone_index :
                  pinecone_index[k].metadata.chunk_id = StrOfId(chunk_ids[upload_count])
        /\ ~a_obs.store_failed =>
              /\ Cardinality(RowsOfCall) = Len(chunks)
              /\ \A i \in 1..Len(chunks) :
                    \E r \in RowsOfCall :
                        r.id = chunk_ids[i] /\ r.content = chunks[i].content
        /\ \A r \in RowsOfCall :
              r.pinecone_id # "None" => \E i \in 1..upload_count : chunk_ids[i] = r.id

\* The upload of the first of two chunks failed on its last attempt: the message
\* is rejected and the two rows store_chunks committed are in the table.
C37_Witness ==
    /\ a_obs.failed_at = "upload"
    /\ a_pc = "idle"
    /\ a_obs.settle = {"reject"}
    /\ Len(chunks) = 2
    /\ ~a_obs.store_failed
    /\ Cardinality(RowsOfCall) = 2
    /\ a_obs.upload_calls = max_retries

\* The handling of the message delivered last got past store_chunks.
APastStore ==
    /\ a_delivered > 0
    /\ a_pc \in {"embed", "upload", "exit", "idle"}
    /\ a_obs.failed_at \notin {"parse", "split"}

\* C38: an article that splits into no segment or into more than max_items
\* segments fails when the BatchEmbeddingRequest is built: the handler raises with
\* no Embedder call and no upload, the message is rejected, and in the case of
\* more than max_items segments the rows store_chunks committed, one per segment,
\* are in the table; an article of 1..max_items segments does not fail there.
C38_BatchRequestBounds ==
    APastStore =>
        IF Len(chunks) < min_items \/ Len(chunks) > max_items
        THEN /\ a_obs.failed_at = "batch_request"
             /\ a_obs.raised
             /\ a_pc \in {"exit", "idle"}
             /\ a_pc = "idle" => a_obs.settle = {"reject"}
             /\ a_obs.embed_calls = 0
             /\ a_obs.upload_calls = 0
             /\ a_obs.upserts = 0
             /\ embedding_results = <<>>
             /\ (Len(chunks) > max_items /\ ~a_obs.store_failed) =>
                    Cardinality(RowsOfCall) = Len(chunks)
             /\ Len(chunks) = 0 => RowsOfCall = {}
        ELSE a_obs.failed_at # "batch_request"

\* An article of max_items + 1 segments was rejected at the batch request with
\* its max_items + 1 rows committed.
C38_Witness ==
    /\ a_pc = "idle"
    /\ Len(chunks) = max_items + 1
    /\ a_obs.failed_at = "batch_request"
    /\ a_obs.settle = {"reject"}
    /\ Cardinality(RowsOfCall) = max_items + 1
    /\ a_obs.embed_calls = 0

\* An article of blank paragraphs only was rejected at the batch request.
C38_EmptyWitness ==
    /\ a_pc = "idle"
    /\ processing_request.valid
    /\ Len(chunks) = 0
    /\ a_obs.failed_at = "batch_request"
    /\ a_obs.settle = {"reject"}

\* stop_consuming was called after start_consuming had set is_running.
CStopped == c_pc \in {"consume", "loop"} /\ ~is_running

\* start_consuming has ended, by return or by exception.
CEnded == c_pc \in {"returned", "raised"}

\* Every stopped run of start_consuming ends with the connection closed.
C39_StopEnds == CStopped ~> (CEnded /\ connection # "open")

\* The step that ends start_consuming leaves no open connection.
C39_ExitClosed == [][(~CEnded /\ CEnded') => connection' # "open"]_vars

\* disconnect on a connection that is closed or was never opened changes nothing.
C39_DisconnectNoop ==
    [][(c_obs'.disconnects # c_obs.disconnects /\ connection # "open") =>
          /\ connection' = connection
          /\ c_pc' = c_pc
          /\ is_running' = is_running]_vars

\* C39: after stop_consuming on a running consumer start_consuming leaves its
\* keep-alive loop and ends with the connection closed; the connection is closed
\* on every path by which start_consuming ends; and disconnect on a closed or
\* never opened connection is a no-op.
C39_Original == C39_StopEnds /\ C39_ExitClosed /\ C39_DisconnectNoop

\* A stopped consumer has returned from start_consuming and its connection is
\* closed.
C39_StoppedWitness ==
    /\ c_pc = "returned"
    /\ ~is_running
    /\ connection = "closed"
    /\ c_obs.sleeps = MaxSleeps

====
